---- MODULE Spec2Model ----
(***************************************************************************)
(* Smart Leftovers recipe recommender (smart_leftovers_app.py).            *)
(*                                                                         *)
(* Strings are sequences of one-character strings, so that cleaning,       *)
(* splitting, substring tests and formatting are computed and not assumed. *)
(* Real numbers (TF-IDF weights, cosine similarities) are fixed-point      *)
(* integers: idf weights in hundredths, unit vectors in thousandths, the   *)
(* 'score' column in millionths and the rounded 'Score' in thousandths.    *)
(***************************************************************************)
EXTENDS Integers, Sequences, FiniteSets, TLC

(***************************************************************************)
(* Bounds of the model.                                                    *)
(***************************************************************************)
\* Longest corpus (rows of train.json) drawn in Init.
MaxRecipes == 2
\* Largest top_n passed by a direct caller of smart_suggest.
MaxTopN == 1
\* Largest max_ings passed by a direct caller of smart_suggest.
MaxMaxIngs == 1
\* The negative top_n a direct caller passes is -MaxNeg.
MaxNeg == 1

(***************************************************************************)
(* Characters and strings.                                                 *)
(***************************************************************************)
LowerLetters ==
  <<"a","b","c","d","e","f","g","h","i","j","k","l","m",
    "n","o","p","q","r","s","t","u","v","w","x","y","z">>

UpperLetters ==
  <<"A","B","C","D","E","F","G","H","I","J","K","L","M",
    "N","O","P","Q","R","S","T","U","V","W","X","Y","Z">>

Range(s) == { s[i] : i \in DOMAIN s }

\* A list or array whose elements are computed when it is built (as Python and numpy
\* do), not each time one is read: the same value as s.
List(s) == s \o <<>>

\* A vector over a vocabulary, its weights computed when it is built: the same value as f.
Vector(f) == f @@ <<>>

LowerSet == Range(LowerLetters)

UpperSet == Range(UpperLetters)

\* each upper-case letter's lower-case letter, and back
ToLower == [c \in UpperSet |-> LowerLetters[CHOOSE i \in 1..26 : UpperLetters[i] = c]]

ToUpper == [c \in LowerSet |-> UpperLetters[CHOOSE i \in 1..26 : LowerLetters[i] = c]]

IsLower(c) == c \in LowerSet

IsUpper(c) == c \in UpperSet

IsSpace(c) == c = " "

\* str.lower() on one character
LowerChar(c) == IF IsUpper(c) THEN ToLower[c] ELSE c

\* str.upper() on one character
UpperChar(c) == IF IsLower(c) THEN ToUpper[c] ELSE c

\* str.lower()
Lower(s) == List([i \in DOMAIN s |-> LowerChar(s[i])])

\* re.sub(r'[^a-z\s]', '', s)
KeepLettersAndSpace(s) == SelectSeq(s, LAMBDA c : IsLower(c) \/ IsSpace(c))

\* re.sub(r'\s+', ' ', s): a whitespace character that follows another is dropped
RECURSIVE CollapseSpaces(_)
CollapseSpaces(s) ==
  IF Len(s) <= 1 THEN s
  ELSE IF IsSpace(s[1]) /\ IsSpace(s[2]) THEN CollapseSpaces(Tail(s))
  ELSE <<s[1]>> \o CollapseSpaces(Tail(s))

RECURSIVE LStrip(_)
LStrip(s) == IF s # <<>> /\ IsSpace(s[1]) THEN LStrip(Tail(s)) ELSE s

RECURSIVE RStrip(_)
RStrip(s) ==
  IF s # <<>> /\ IsSpace(s[Len(s)]) THEN RStrip(SubSeq(s, 1, Len(s) - 1)) ELSE s

\* str.strip()
Strip(s) == LStrip(RStrip(s))

\* clean_ingredient(ing)
clean_ingredient(ing) == Strip(CollapseSpaces(KeepLettersAndSpace(Lower(ing))))

\* Python's `word in ing` on strings: word is a contiguous substring of ing
Contains(ing, word) ==
  \E k \in 0..(Len(ing) - Len(word)) : SubSeq(ing, k + 1, k + Len(word)) = word

\* ' '.join(parts)
RECURSIVE JoinSpace(_)
JoinSpace(parts) ==
  IF parts = <<>> THEN <<>>
  ELSE IF Len(parts) = 1 THEN parts[1]
  ELSE parts[1] \o <<" ">> \o JoinSpace(Tail(parts))

\* str.split(sep) for a one-character sep: always at least one piece
RECURSIVE SplitOn(_, _, _)
SplitOn(s, sep, cur) ==
  IF s = <<>> THEN <<cur>>
  ELSE IF s[1] = sep THEN <<cur>> \o SplitOn(Tail(s), sep, <<>>)
  ELSE SplitOn(Tail(s), sep, Append(cur, s[1]))

Split(s, sep) == SplitOn(s, sep, <<>>)

\* str.title(): a letter is upper-cased after a non-letter, lower-cased after a letter
Title(s) ==
  List([i \in DOMAIN s |->
          IF i = 1 \/ ~(IsLower(s[i - 1]) \/ IsUpper(s[i - 1]))
            THEN UpperChar(s[i]) ELSE LowerChar(s[i])])

Digits == <<"0","1","2","3","4","5","6","7","8","9">>

\* str(n) for n >= 0 (the f-string's {row['id']})
RECURSIVE IntToStr(_)
IntToStr(n) ==
  IF n < 10 THEN <<Digits[n + 1]>>
  ELSE IntToStr(n \div 10) \o <<Digits[(n % 10) + 1]>>

(***************************************************************************)
(* Fixed-point arithmetic.                                                 *)
(***************************************************************************)
\* Newton's iteration for the square root, from x >= sqrt(n) downwards
RECURSIVE ISqrtIn(_, _)
ISqrtIn(n, x) ==
  LET y == (x + (n \div x)) \div 2
  IN IF y >= x THEN x ELSE ISqrtIn(n, y)

\* floor of the square root of n >= 0; the start is above it by (a + b) / 2 >= sqrt(a * b)
ISqrt(n) == IF n <= 1 THEN n ELSE ISqrtIn(n, ((1024 + (n \div 1024)) \div 2) + 1)

\* 1000 * ln(a / b) for a >= b >= 1, by ln(a/b) = 2 atanh((a-b)/(a+b)), four terms
LnMilli(a, b) ==
  LET z  == (1000 * (a - b)) \div (a + b)
      z3 == (z * z * z) \div 1000000
      z5 == (z3 * z * z) \div 1000000
      z7 == (z5 * z * z) \div 1000000
  IN 2 * (z + (z3 \div 3) + (z5 \div 5) + (z7 \div 7))

RECURSIVE SumOver(_, _)
SumOver(S, f) ==
  IF S = {} THEN 0
  ELSE LET x == CHOOSE y \in S : TRUE IN f[x] + SumOver(S \ {x}, f)

(***************************************************************************)
(* TfidfVectorizer with its defaults (smooth idf, l2 norm, tokens of two   *)
(* or more word characters) and cosine_similarity.  A vector is a function *)
(* from the fitted vocabulary to a weight.                                 *)
(***************************************************************************)
\* token_pattern (?u)\b\w\w+\b on text that holds only letters and spaces
Tokenize(text) == SelectSeq(Split(text, " "), LAMBDA w : Len(w) >= 2)

\* number of occurrences of token t in the token sequence toks
TermCount(toks, t) == Cardinality({ i \in DOMAIN toks : toks[i] = t })

\* l2 normalisation to a unit vector (in thousandths); an all-zero vector stays zero
Normalize(vec) ==
  LET norm == ISqrt(SumOver(DOMAIN vec, [t \in DOMAIN vec |-> vec[t] * vec[t]]))
  IN Vector([t \in DOMAIN vec |-> IF norm = 0 THEN 0 ELSE (vec[t] * 1000) \div norm])

\* smooth idf in hundredths: ln((1 + n) / (1 + df)) + 1
Idf(n, docfreq) == 100 + ((LnMilli(1 + n, 1 + docfreq) + 5) \div 10)

\* TfidfVectorizer().fit(docs): the vocabulary and its idf weights
Fit(docs) ==
  LET toks  == List([i \in DOMAIN docs |-> Tokenize(docs[i])])
      vocab == UNION { Range(toks[i]) : i \in DOMAIN docs }
  IN [vocabulary |-> vocab,
      idf |-> Vector([t \in vocab |->
                 Idf(Len(docs), Cardinality({ i \in DOMAIN docs : t \in Range(toks[i]) }))])]

\* vectorizer.transform([doc])[0]: tokens outside the vocabulary are ignored
Transform(vectorizer, doc) ==
  LET toks == Tokenize(doc)
  IN Normalize(Vector([t \in vectorizer.vocabulary |->
                         TermCount(toks, t) * vectorizer.idf[t]]))

\* cosine_similarity of two vectors, in millionths (0 when either is all-zero)
CosineSimilarity(u, v) ==
  LET nu == Normalize(u)
      nv == Normalize(v)
  IN SumOver(DOMAIN u, [t \in DOMAIN u |-> nu[t] * nv[t]])

(***************************************************************************)
(* The recipe corpus.                                                      *)
(***************************************************************************)
\* non_veg_keywords
non_veg_keywords ==
  << <<"c","h","i","c","k","e","n">>,
    <<"f","i","s","h">>,
    <<"m","u","t","t","o","n">>,
    <<"b","e","e","f">>,
    <<"e","g","g">>,
    <<"b","a","c","o","n">>,
    <<"m","e","a","t">>,
    <<"p","o","r","k">>,
    <<"s","h","r","i","m","p">>,
    <<"l","a","m","b">> >>

\* is_veg_recipe(ingredients, non_veg_keywords)
is_veg_recipe(ingredients, keywords) ==
  ~ \E i \in DOMAIN ingredients :
      \E w \in DOMAIN keywords : Contains(ingredients[i], keywords[w])

\* marks a table without a 'score' column
NoScore == -1

BaseColumns == {"id", "cuisine", "ingredients"}

\* pd.DataFrame(data) followed by the 'ingredient_text' column of load_data
DataFrame(data) ==
  [columns |-> BaseColumns \cup {"ingredient_text"},
   rows |-> List([i \in DOMAIN data |->
              [id |-> data[i].id,
               cuisine |-> data[i].cuisine,
               ingredients |-> data[i].ingredients,
               ingredient_text |->
                 JoinSpace(List([k \in DOMAIN data[i].ingredients |->
                                   clean_ingredient(data[i].ingredients[k])])),
               score |-> NoScore]])]

\* load_data(): the status is the exception raised, or "ok"
load_data(data) ==
  LET frame == DataFrame(data)
      docs  == List([i \in DOMAIN frame.rows |-> frame.rows[i].ingredient_text])
      vec   == Fit(docs)
  IN IF data = <<>>
       THEN [status |-> "KeyError", df |-> <<>>, tfidf_matrix |-> <<>>, vectorizer |-> <<>>]
     ELSE IF vec.vocabulary = {}
       THEN [status |-> "ValueError", df |-> <<>>, tfidf_matrix |-> <<>>, vectorizer |-> <<>>]
     ELSE [status |-> "ok",
           df |-> frame,
           tfidf_matrix |-> List([i \in DOMAIN docs |-> Transform(vec, docs[i])]),
           vectorizer |-> vec]

(***************************************************************************)
(* smart_suggest.                                                          *)
(***************************************************************************)
\* SetScore as it would be if an existing 'score' column were kept
SetScoreOnce(df, sims) ==
  IF "score" \in df.columns THEN df
  ELSE [columns |-> df.columns \cup {"score"},
        rows |-> List([i \in DOMAIN df.rows |-> [df.rows[i] EXCEPT !.score = sims[i]]])]

\* df['score'] = cosine_similarities: the column is added, or overwritten
SetScore(df, sims) ==
  [columns |-> df.columns \cup {"score"},
   rows |-> List([i \in DOMAIN df.rows |-> [df.rows[i] EXCEPT !.score = sims[i]]])]

\* FilterByLength with < in place of <=
FilterByLengthStrict(df, max_ings) ==
  SelectSeq(List([i \in DOMAIN df.rows |-> i]),
            LAMBDA i : Len(df.rows[i].ingredients) < max_ings)

\* df[df['ingredients'].apply(len) <= max_ings]
FilterByLength(df, max_ings) ==
  SelectSeq(List([i \in DOMAIN df.rows |-> i]),
            LAMBDA i : Len(df.rows[i].ingredients) <= max_ings)

\* df_filtered[df_filtered['ingredients'].apply(lambda ings: is_veg_recipe(...))]
FilterVeg(df, idx) ==
  SelectSeq(idx, LAMBDA i : is_veg_recipe(df.rows[i].ingredients, non_veg_keywords))

\* row i comes before row j in the descending order; ties says how the sort
\* leaves rows of equal score
Before(df, i, j, ties) ==
  \/ df.rows[i].score > df.rows[j].score
  \/ /\ df.rows[i].score = df.rows[j].score
     /\ IF ties = "kept" THEN i < j ELSE i > j

RECURSIVE SortDescending(_, _, _)
SortDescending(df, S, ties) ==
  IF S = {} THEN <<>>
  ELSE LET first == CHOOSE i \in S : \A j \in S \ {i} : Before(df, i, j, ties)
       IN <<first>> \o SortDescending(df, S \ {first}, ties)

\* df_filtered.sort_values(by="score", ascending=False), default kind='quicksort'
sort_values(df, idx, ties) == SortDescending(df, Range(idx), ties)

\* head taking one row too many
headOneMore(idx, n) ==
  IF n >= 0
    THEN SubSeq(idx, 1, IF n + 1 < Len(idx) THEN n + 1 ELSE Len(idx))
    ELSE SubSeq(idx, 1, IF Len(idx) + n > 0 THEN Len(idx) + n ELSE 0)

\* DataFrame.head(n): the first n rows; for n < 0 all rows but the last -n
head(idx, n) ==
  IF n >= 0
    THEN SubSeq(idx, 1, IF n < Len(idx) THEN n ELSE Len(idx))
    ELSE SubSeq(idx, 1, IF Len(idx) + n > 0 THEN Len(idx) + n ELSE 0)

\* round(score, 3): millionths to thousandths
Round3(score) == (score + 500) \div 1000

\* [i for i in user_cleaned if i in recipe_ings]
Matched(user_cleaned, recipe_ings) ==
  SelectSeq(user_cleaned, LAMBDA i : i \in Range(recipe_ings))

\* [i for i in recipe_ings if i not in matched]
Unmatched(recipe_ings, matched) ==
  SelectSeq(recipe_ings, LAMBDA i : i \notin Range(matched))

\* the dict appended to results for one row
Result(row, user_cleaned) ==
  LET recipe_ings ==
        List([k \in DOMAIN row.ingredients |-> clean_ingredient(row.ingredients[k])])
      matched == Matched(user_cleaned, recipe_ings)
  IN [Name |-> Title(row.cuisine) \o <<" ","D","i","s","h"," ","#">> \o IntToStr(row.id),
      Cuisine |-> Title(row.cuisine),
      Matched |-> matched,
      Unmatched |-> Unmatched(recipe_ings, matched),
      Score |-> Round3(row.score)]

\* smart_suggest(user_ingredients, df, tfidf_matrix, vectorizer, top_n, is_veg, max_ings):
\* the table as the call leaves it, the locals df_filtered and top_recipes (row
\* labels), and the returned list
smart_suggest(user_ingredients, df, tfidf_matrix, vectorizer, top_n, is_veg, max_ings, ties) ==
  LET user_cleaned ==
        List([k \in DOMAIN user_ingredients |-> clean_ingredient(user_ingredients[k])])
      user_input == JoinSpace(user_cleaned)
      user_vec == Transform(vectorizer, user_input)
      cosine_similarities ==
        List([i \in DOMAIN tfidf_matrix |-> CosineSimilarity(user_vec, tfidf_matrix[i])])
      scored == SetScore(df, cosine_similarities)
      by_length == FilterByLength(scored, max_ings)
      filtered == IF is_veg THEN FilterVeg(scored, by_length) ELSE by_length
      top == head(sort_values(scored, filtered, ties), top_n)
  IN [df |-> scored,
      df_filtered |-> filtered,
      top_recipes |-> top,
      results |-> List([k \in DOMAIN top |-> Result(scored.rows[top[k]], user_cleaned)])]

(***************************************************************************)
(* Inputs: the rows train.json may hold, the ingredient lists a caller     *)
(* passes, and the texts typed into the ingredient box.                    *)
(***************************************************************************)
milk == <<"m","i","l","k">>
egg == <<"e","g","g">>
Egg == <<"E","g","g">>
flour == <<"f","l","o","u","r">>
digits123 == <<"1","2","3">>
italian == <<"i","t","a","l","i","a","n">>
indian == <<"i","n","d","i","a","n">>

RecipePool ==
  { [cuisine |-> italian, ingredients |-> <<milk, egg>>],
    [cuisine |-> indian, ingredients |-> <<Egg>>],
    [cuisine |-> indian, ingredients |-> <<>>] }

\* train.json: up to MaxRecipes rows, the id being the row's position in the file
Corpora ==
  UNION { { [i \in 1..n |-> [id |-> i, cuisine |-> f[i].cuisine,
                             ingredients |-> f[i].ingredients]] :
            f \in [1..n -> RecipePool] } : n \in 0..MaxRecipes }

Queries ==
  { <<flour, egg, egg>>, <<digits123>> }

\* the text of the ingredient box: "egg, milk", "123" and " , "
TextInputs ==
  { egg \o <<",", " ">> \o milk, digits123, <<" ", ",", " ">> }

\* the ends of the slider's range
SliderMin == 3
SliderMax == 20

\* top_n of the handler's call
HandlerTopN == 5

(***************************************************************************)
(* State.                                                                  *)
(***************************************************************************)
VARIABLES
  data,          \* the rows of train.json
  sort_ties,     \* how this build's quicksort leaves rows of equal score
  cache,         \* st.cache_data's entry for load_data, or NoCache
  raised,        \* the exception the last load_data() raised, or "none"
  df,            \* the table bound by `df, tfidf_matrix, vectorizer = load_data()`
  tfidf_matrix,
  vectorizer,
  req,           \* the arguments of the last request, or NoReq
  score_before,  \* the 'score' column the table carried when that request began
  df_filtered,   \* smart_suggest's local, as row labels
  top_recipes,   \* smart_suggest's local, as row labels
  results,       \* the list the last smart_suggest returned
  ui             \* what the handler showed: "none", "results", "warning", "error"

vars ==
  <<data, sort_ties, cache, raised, df, tfidf_matrix, vectorizer, req,
    score_before, df_filtered, top_recipes, results, ui>>

NoCache == [status |-> "none"]

NoTable == [columns |-> {}, rows |-> <<>>]

NoReq == [kind |-> "none"]

\* the 'score' column of a table (empty when the table has none)
ScoreColumn(table) ==
  IF "score" \in table.columns
    THEN List([i \in DOMAIN table.rows |-> table.rows[i].score]) ELSE <<>>

Init ==
  /\ data \in Corpora
  /\ sort_ties \in {"kept", "reversed"}
  /\ cache = NoCache
  /\ raised = "none"
  /\ df = NoTable
  /\ tfidf_matrix = <<>>
  /\ vectorizer = <<>>
  /\ req = NoReq
  /\ score_before = <<>>
  /\ df_filtered = <<>>
  /\ top_recipes = <<>>
  /\ results = <<>>
  /\ ui = "none"

\* what load_data() returns under @st.cache_data: the cached entry (each call gets
\* its own copy of it), computed first when there is none
CachedLoad == IF cache.status = "ok" THEN cache ELSE load_data(data)

\* df, tfidf_matrix, vectorizer = load_data(), by a caller that holds no table yet
LoadData ==
  LET loaded == CachedLoad
  IN /\ df = NoTable
     /\ raised' = IF loaded.status = "ok" THEN "none" ELSE loaded.status
     /\ IF loaded.status = "ok"
          THEN /\ cache' = loaded
               /\ df' = loaded.df
               /\ tfidf_matrix' = loaded.tfidf_matrix
               /\ vectorizer' = loaded.vectorizer
          ELSE UNCHANGED <<cache, df, tfidf_matrix, vectorizer>>
     /\ UNCHANGED <<data, sort_ties, req, score_before, df_filtered, top_recipes,
                    results, ui>>

\* a call of smart_suggest on the loaded table, matrix and vectorizer
SmartSuggest(user_ingredients, top_n, is_veg, max_ings) ==
  /\ cache.status = "ok"
  /\ "ingredients" \in df.columns
  /\ \E out \in {smart_suggest(user_ingredients, df, tfidf_matrix, vectorizer,
                              top_n, is_veg, max_ings, sort_ties)} :
        /\ df' = out.df
        /\ df_filtered' = out.df_filtered
        /\ top_recipes' = out.top_recipes
        /\ results' = out.results
  /\ req' = [kind |-> "smart_suggest", user_ingredients |-> user_ingredients,
             top_n |-> top_n, is_veg |-> is_veg, max_ings |-> max_ings]
  /\ score_before' = ScoreColumn(df)
  /\ ui' = "none"
  /\ UNCHANGED <<data, sort_ties, cache, raised, tfidf_matrix, vectorizer>>

\* [i.strip() for i in user_input.split(",") if i.strip()]
ParseInput(user_input) ==
  LET parts == Split(user_input, ",")
  IN SelectSeq(List([k \in DOMAIN parts |-> Strip(parts[k])]), LAMBDA i : i # <<>>)

\* the "Suggest Recipes" button of tab1
SuggestRecipes(user_input, is_veg_choice, max_ings) ==
  \E loaded \in {CachedLoad}, user_ingredients \in {ParseInput(user_input)} :
    /\ raised' = IF loaded.status = "ok" THEN "none" ELSE loaded.status
    /\ IF loaded.status # "ok"
         THEN UNCHANGED <<cache, df, tfidf_matrix, vectorizer, req, score_before,
                          df_filtered, top_recipes, results, ui>>
         ELSE /\ cache' = loaded
              /\ tfidf_matrix' = loaded.tfidf_matrix
              /\ vectorizer' = loaded.vectorizer
              /\ req' = [kind |-> "handler", user_ingredients |-> user_ingredients,
                         top_n |-> HandlerTopN, is_veg |-> (is_veg_choice = "Yes"),
                         max_ings |-> max_ings]
              /\ IF user_ingredients # <<>>
                   THEN \E out \in {smart_suggest(user_ingredients, loaded.df,
                                       loaded.tfidf_matrix, loaded.vectorizer, HandlerTopN,
                                       is_veg_choice = "Yes", max_ings, sort_ties)} :
                          /\ df' = out.df
                          /\ score_before' = ScoreColumn(loaded.df)
                          /\ df_filtered' = out.df_filtered
                          /\ top_recipes' = out.top_recipes
                          /\ results' = out.results
                          /\ ui' = IF out.results # <<>> THEN "results" ELSE "warning"
                   ELSE /\ df' = loaded.df
                        /\ score_before' = <<>>
                        /\ df_filtered' = <<>>
                        /\ top_recipes' = <<>>
                        /\ results' = <<>>
                        /\ ui' = "error"
    /\ UNCHANGED <<data, sort_ties>>

Next ==
  \/ LoadData
  \/ \E user_ingredients \in Queries, top_n \in {-MaxNeg} \cup 0..MaxTopN,
        is_veg \in BOOLEAN, max_ings \in 0..MaxMaxIngs :
       SmartSuggest(user_ingredients, top_n, is_veg, max_ings)
  \/ \E user_input \in TextInputs, is_veg_choice \in {"Yes", "No"},
        max_ings \in {SliderMin, SliderMax} :
       SuggestRecipes(user_input, is_veg_choice, max_ings)

Spec == Init /\ [][Next]_vars

(***************************************************************************)
(* Properties.                                                             *)
(***************************************************************************)
\* the last request ran smart_suggest (the handler does not on an empty list)
Called ==
  \/ req.kind = "smart_suggest"
  \/ req.kind = "handler" /\ ui # "error"

Min(a, b) == IF a < b THEN a ELSE b

\* the display name of row i of the table
NameOf(i) ==
  Title(df.rows[i].cuisine) \o <<" ","D","i","s","h"," ","#">> \o IntToStr(df.rows[i].id)

\* the normalized ingredients of row i, and of the last request's query
CleanedRow(i) ==
  List([k \in DOMAIN df.rows[i].ingredients |-> clean_ingredient(df.rows[i].ingredients[k])])

CleanedQuery ==
  List([k \in DOMAIN req.user_ingredients |-> clean_ingredient(req.user_ingredients[k])])

C2_VegRejectsOnNormalizedIngredients ==
  (Called /\ req.is_veg) =>
    /\ Range(df_filtered) =
         { i \in DOMAIN df.rows :
             /\ Len(df.rows[i].ingredients) <= req.max_ings
             /\ is_veg_recipe(CleanedRow(i), non_veg_keywords) }
    /\ \A k \in DOMAIN top_recipes :
         is_veg_recipe(CleanedRow(top_recipes[k]), non_veg_keywords)

\* C3: Matched is the recipe's normalized ingredients found in the normalized query,
\* Unmatched is the rest, both in the recipe's own order and multiplicity.
C3_MatchedUnmatchedPartitionRecipe ==
  Called =>
    \A k \in DOMAIN results :
      /\ results[k].Matched =
           SelectSeq(CleanedRow(top_recipes[k]), LAMBDA i : i \in Range(CleanedQuery))
      /\ results[k].Unmatched =
           SelectSeq(CleanedRow(top_recipes[k]), LAMBDA i : i \notin Range(CleanedQuery))

\* C4: results are in descending score order, and recipes of equal score keep their
\* corpus order.
C4_DescendingAndStable ==
  Called =>
    \A k, l \in DOMAIN top_recipes :
      k < l =>
        \/ df.rows[top_recipes[k]].score > df.rows[top_recipes[l]].score
        \/ /\ df.rows[top_recipes[k]].score = df.rows[top_recipes[l]].score
           /\ top_recipes[k] < top_recipes[l]

\* C5: with vegetarian_only unset a recipe is accepted iff its raw ingredient count
\* is <= max_ingredients.
C5_AcceptedIffWithinMaxIngredients ==
  (Called /\ ~req.is_veg) =>
    /\ Range(df_filtered) =
         { i \in DOMAIN df.rows : Len(df.rows[i].ingredients) <= req.max_ings }
    /\ Len(df_filtered) = Cardinality(Range(df_filtered))

\* C5 witness: a recipe with exactly max_ingredients ingredients was accepted and one
\* with max_ingredients + 1 was rejected
C5_Witness ==
  /\ Called
  /\ ~req.is_veg
  /\ \E i \in Range(df_filtered) : Len(df.rows[i].ingredients) = req.max_ings
  /\ \E j \in DOMAIN df.rows \ Range(df_filtered) :
       Len(df.rows[j].ingredients) = req.max_ings + 1

\* C6: a query that is empty, or whose every ingredient normalizes to the empty
\* string, is rejected before scoring: nothing is scored and nothing is returned.
C6_EmptyQueryRejectedBeforeScoring ==
  (req.kind # "none" /\ \A k \in DOMAIN CleanedQuery : CleanedQuery[k] = <<>>) =>
    /\ results = <<>>
    /\ ScoreColumn(df) = score_before
    /\ req.kind = "handler" => ui = "error"

\* C7: a request with max_ingredients <= 0 or top_n <= 0 returns an empty result.
C7_NonPositiveArgumentsGiveNoResults ==
  (Called /\ (req.max_ings <= 0 \/ req.top_n <= 0)) => results = <<>>

\* C8: with a corpus of zero recipes no stage raises an exception.
C8_EmptyCorpusNeverRaises ==
  data = <<>> => raised = "none"

\* C9: requests leave the table, the term-weight matrix and the vector space as they
\* were built.
C9_CorpusUnchangedByRequests ==
  cache.status = "ok" =>
    /\ df = cache.df
    /\ tfidf_matrix = cache.tfidf_matrix
    /\ vectorizer = cache.vectorizer

\* C10: a request on a table that earlier requests have used returns exactly what the
\* same request returns on the freshly built corpus.
C10_ResultsAsOnFreshCorpus ==
  req.kind = "smart_suggest" =>
    results = smart_suggest(req.user_ingredients, cache.df, cache.tfidf_matrix,
                            cache.vectorizer, req.top_n, req.is_veg, req.max_ings,
                            sort_ties).results

\* C10 witness: the request found scores of a different earlier request in the table
\* and returned results
C10_Witness ==
  /\ req.kind = "smart_suggest"
  /\ score_before # <<>>
  /\ score_before # ScoreColumn(df)
  /\ results # <<>>

====
